---- MODULE Spec2Model ----
(***************************************************************************)
(* State-machine model of the ARAP web deformer front end                  *)
(* (src/src/App.tsx, first listing, lines 1-493, and the WasmSolverService *)
(* facade in src/src/arap.d.ts).                                           *)
(*                                                                         *)
(* Geometry abstraction.  A position is a point of the unit circle around  *)
(* the gizmo's rotation axis, given by its sector 0..Sectors-1, or the     *)
(* non-finite value NaN, or the centre of the circle, Origin, which is     *)
(* what new THREE.Vector3(undefined, undefined, undefined) is (the read    *)
(* past the end of a buffer, App.tsx:391-393).  The model transform        *)
(* (TransformControls in "rotate" mode acting on the model group) is a     *)
(* rotation by xform sectors, so localToWorld adds xform and worldToLocal  *)
(* subtracts it.                                                           *)
(*                                                                         *)
(* React abstraction.  Every event handler runs against the state of the   *)
(* latest committed render (the listeners are re-attached after every      *)
(* render, App.tsx:207-217), so a handler reads and writes the current     *)
(* state atomically.  The one closure that outlives its render is the      *)
(* runDeformation handed to requestAnimationFrame (App.tsx:409): it keeps  *)
(* the handleIndices, anchorIndices, handlePositions and isWasmReady of    *)
(* the render in which the frame was scheduled; refs (modelRef,            *)
(* latestDragInfo, animationFrameId) are read live.  Two pointer-downs     *)
(* that arrive before the next render are the action                       *)
(* onPointerDownSelectSameRender: both handlers read the state of the one  *)
(* render, and their state updaters run in the order they were queued.     *)
(*                                                                         *)
(* Spec is the whole application.  Its state space is too large to         *)
(* enumerate, so the properties are checked under sessions built from the  *)
(* same actions, each introduced where it is defined.                      *)
(***************************************************************************)
EXTENDS Integers, Sequences, FiniteSets, TLC

VARIABLES
    mode,              \* App.tsx:223  'view' | 'select' | 'deform'
    handleIndices,     \* App.tsx:224  number[]
    anchorIndices,     \* App.tsx:225  number[]
    handlePositions,   \* App.tsx:226  Map<number, Vector3> (world space)
    isWasmReady,       \* App.tsx:227
    wasmError,         \* App.tsx:228  TRUE when an error message is set
    geometry,          \* App.tsx:36/229  <<>> before the model is loaded, else <<position buffer>>
    xform,             \* rotation of the model group (groupRef), in sectors
    dragState,         \* App.tsx:108-112  [isDragging, handleIndex]
    animationFrameId,  \* App.tsx:235  NoFrame (null) or a request id
    latestDragInfo,    \* App.tsx:236  <<>> (null) or <<[index, pos]>>
    rafQueue,          \* callbacks handed to requestAnimationFrame and not yet run
    service,           \* arap.d.ts:56-58  [ctor, controller] of the WasmSolverService singleton
    initPending,       \* TRUE while the init() promise of App.tsx:239 is unsettled
    initCalls,         \* the init() calls suspended at the awaits of arap.d.ts:76-79;
                       \* history: for each, whether cleanup() has run since it began
    engine,            \* the external engine: [loads, modules, deleted]
    pendingMoves,      \* history: positions given to handleMove since the last frame callback ran
    last               \* history: the step just taken and what it issued

vars == <<mode, handleIndices, anchorIndices, handlePositions, isWasmReady, wasmError,
          geometry, xform, dragState, animationFrameId, latestDragInfo, rafQueue,
          service, initPending, initCalls, engine, pendingMoves, last>>

-----------------------------------------------------------------------------
(* Bounds of the model *)

NumVerts == 2
Sectors == 3
MaxMoves == 2
MaxTurns == 1
MaxInits == 2
MaxControllers == 2
MaxDeletes == 2

(* Program constants *)

SolveIterations == 50
NoFrame == 0
NoIndex == 0 - 1

Verts == 0 .. (NumVerts - 1)
Points == 0 .. (Sectors - 1)
NaN == 0 - 1
Origin == Sectors
Coords == Points \cup {NaN, Origin}
Turns == 0 .. MaxTurns
Modes == {"view", "select", "deform"}

\* the meshes the loader delivers: all vertices apart, or all coincident (the
\* OBJ loader gives non-indexed geometry, so duplicate vertices are ordinary)
Meshes == {[v \in Verts |-> v % Sectors], [v \in Verts |-> 0]}

\* what the engine's get_vertices hands back after a solve: every vertex moved by
\* s sectors, or a diverged solve whose vertices beyond the first are not finite
SolverResults ==
    {[v \in Verts |-> (v + s) % Sectors] : s \in {0, 1}}
        \cup {[v \in Verts |-> IF v = 0 THEN 0 ELSE NaN]}

\* a buffer one vertex shorter than the rendered mesh (the solver works on the mesh
\* with coincident vertices merged, App.tsx:261-266) and one that is one vertex longer
MismatchedResults ==
    {[v \in 0 .. (NumVerts - 2) |-> (v + 1) % Sectors], [v \in 0 .. NumVerts |-> 0]}

-----------------------------------------------------------------------------
(* Arrays and Maps *)

Includes(arr, x) == \E k \in 1 .. Len(arr) : arr[k] = x

Without(arr, x) == SelectSeq(arr, LAMBDA y : y # x)

Elems(arr) == {arr[k] : k \in 1 .. Len(arr)}

EmptyMap == [k \in {} |-> NaN]

MapSet(m, k, v) == [x \in (DOMAIN m) \cup {k} |-> IF x = k THEN v ELSE m[x]]

MapDelete(m, k) == [x \in (DOMAIN m) \ {k} |-> m[x]]

-----------------------------------------------------------------------------
(* Coordinate conversion through the model group *)

isFinite(p) == p # NaN

localToWorld(p) == IF p = NaN \/ p = Origin THEN p ELSE (p + xform) % Sectors

worldToLocal(p) ==
    IF p = NaN \/ p = Origin THEN p ELSE (p + Sectors - (xform % Sectors)) % Sectors

getVertexWorldPosition(index) == localToWorld(geometry[1][index])

-----------------------------------------------------------------------------
(* History record of the step just taken *)

NoCalls == <<>>

\* a pointer-down as the Select branch reads it: the vertex the pick resolved (NoIndex
\* when the ray misses the mesh) and the modifier held
NoEvent == [picked |-> 0 - 1, modifier |-> "none"]

\* op, index: the handler that ran and the vertex it acted on
Step(op, index) ==
    [op |-> op, index |-> index, outcome |-> "", calls |-> NoCalls, moves |-> <<>>,
     ready |-> FALSE, event |-> NoEvent, result |-> <<>>]

\* a frame callback: how it ended, the calls that reached the engine, the positions
\* handleMove was given since the previous callback, and the isWasmReady it closed over
FrameStep(env, index, outcome, calls) ==
    [op |-> "frame", index |-> index, outcome |-> outcome, calls |-> calls,
     moves |-> pendingMoves, ready |-> env.isWasmReady, event |-> NoEvent,
     result |-> <<>>]

constraintVars == <<handleIndices, anchorIndices, handlePositions>>
engineVars == <<isWasmReady, wasmError, service, initPending, initCalls, engine>>
meshVars == <<geometry, xform>>
schedVars == <<animationFrameId, latestDragInfo, rafQueue, pendingMoves>>

-----------------------------------------------------------------------------
(* Constraint Set: App.tsx:311-341 *)

\* the updater handed to setHandleIndices, App.tsx:316
selectHandleIndices(prev, index) ==
    IF Includes(prev, index) THEN prev ELSE Append(prev, index)

\* the updater handed to setHandlePositions, App.tsx:317
selectHandlePositions(prev, index) ==
    MapSet(prev, index, getVertexWorldPosition(index))

handleVertexSelected(index) ==
    /\ handleIndices' = selectHandleIndices(handleIndices, index)
    /\ handlePositions' = selectHandlePositions(handlePositions, index)
    /\ UNCHANGED anchorIndices

\* the updater handed to setAnchorIndices, App.tsx:326-330
toggleAnchorIndices(prev, index) ==
    IF Includes(prev, index) THEN Without(prev, index) ELSE Append(prev, index)

\* the updater handed to setHandlePositions, App.tsx:331-334
toggleAnchorPositions(prev, index) ==
    IF index \in DOMAIN prev
        THEN MapDelete(prev, index)
        ELSE MapSet(prev, index, getVertexWorldPosition(index))

\* handleAnchorSelected without the guard of App.tsx:322-325
handleAnchorSelected_NoHandleCheck(index) ==
    /\ anchorIndices' = toggleAnchorIndices(anchorIndices, index)
    /\ handlePositions' = toggleAnchorPositions(handlePositions, index)
    /\ UNCHANGED handleIndices

handleAnchorSelected(index) ==
    IF Includes(handleIndices, index)
        THEN UNCHANGED constraintVars
        ELSE /\ anchorIndices' = toggleAnchorIndices(anchorIndices, index)
             /\ handlePositions' = toggleAnchorPositions(handlePositions, index)
             /\ UNCHANGED handleIndices

\* handleVertexSelected(index), then handleAnchorSelected(index) of the same render:
\* the guard of App.tsx:322 reads that render's handleIndices, and the updaters of
\* the second call run on the state the updaters of the first have produced
handleVertexThenAnchorSelected(index) ==
    /\ handleIndices' = selectHandleIndices(handleIndices, index)
    /\ IF Includes(handleIndices, index)
           THEN /\ UNCHANGED anchorIndices
                /\ handlePositions' = selectHandlePositions(handlePositions, index)
           ELSE /\ anchorIndices' = toggleAnchorIndices(anchorIndices, index)
                /\ handlePositions' =
                       toggleAnchorPositions(selectHandlePositions(handlePositions, index),
                                             index)

\* clearSelection without the reset of the stored positions, App.tsx:340
clearSelection_KeepPositions ==
    /\ handleIndices' = <<>>
    /\ anchorIndices' = <<>>
    /\ UNCHANGED handlePositions

clearSelection ==
    /\ handleIndices' = <<>>
    /\ anchorIndices' = <<>>
    /\ handlePositions' = EmptyMap

-----------------------------------------------------------------------------
(* Picking: App.tsx:114-133 *)

distanceToSquared(a, b) ==
    LET d == IF a >= b THEN a - b ELSE b - a
        arc == IF d <= Sectors - d THEN d ELSE Sectors - d
    IN  arc * arc

RECURSIVE scanNearest(_, _, _, _, _)
scanNearest(i, worldPoint, buffer, minDistanceSq, nearestVertexIndex) ==
    IF i >= NumVerts
        THEN nearestVertexIndex
        ELSE LET vertexWorldPos == localToWorld(buffer[i])
                 closer == /\ isFinite(vertexWorldPos)
                           /\ \/ nearestVertexIndex = NoIndex
                              \/ distanceToSquared(vertexWorldPos, worldPoint) < minDistanceSq
             IN  IF closer
                     THEN scanNearest(i + 1, worldPoint, buffer,
                                      distanceToSquared(vertexWorldPos, worldPoint), i)
                     ELSE scanNearest(i + 1, worldPoint, buffer, minDistanceSq,
                                      nearestVertexIndex)

\* the scan with distanceSq <= minDistanceSq at App.tsx:127
RECURSIVE scanNearest_OrEqual(_, _, _, _, _)
scanNearest_OrEqual(i, worldPoint, buffer, minDistanceSq, nearestVertexIndex) ==
    IF i >= NumVerts
        THEN nearestVertexIndex
        ELSE LET vertexWorldPos == localToWorld(buffer[i])
                 closer == /\ isFinite(vertexWorldPos)
                           /\ \/ nearestVertexIndex = NoIndex
                              \/ distanceToSquared(vertexWorldPos, worldPoint)
                                     <= minDistanceSq
             IN  IF closer
                     THEN scanNearest_OrEqual(i + 1, worldPoint, buffer,
                              distanceToSquared(vertexWorldPos, worldPoint), i)
                     ELSE scanNearest_OrEqual(i + 1, worldPoint, buffer, minDistanceSq,
                                              nearestVertexIndex)

findNearestVertexIndex_LastOnTies(worldPoint, buffer) ==
    scanNearest_OrEqual(0, worldPoint, buffer, 0, NoIndex)

findNearestVertexIndex(worldPoint, buffer) ==
    scanNearest(0, worldPoint, buffer, 0, NoIndex)

-----------------------------------------------------------------------------
(* Deformation Scheduler: App.tsx:343-411 *)

Closure ==
    [handleIndices |-> handleIndices, anchorIndices |-> anchorIndices,
     handlePositions |-> handlePositions, isWasmReady |-> isWasmReady]

\* handleMove that records the position only when it requests the frame
handleMove_KeepFirst(draggedIndex, newPosition) ==
    /\ IF animationFrameId = NoFrame
           THEN /\ latestDragInfo' = <<[index |-> draggedIndex, pos |-> newPosition]>>
                /\ animationFrameId' = Len(rafQueue) + 1
                /\ rafQueue' = Append(rafQueue, Closure)
           ELSE UNCHANGED <<latestDragInfo, animationFrameId, rafQueue>>
    /\ pendingMoves' = Append(pendingMoves, newPosition)

\* handleMove without the guard of App.tsx:408
handleMove_AlwaysSchedule(draggedIndex, newPosition) ==
    /\ latestDragInfo' = <<[index |-> draggedIndex, pos |-> newPosition]>>
    /\ animationFrameId' = Len(rafQueue) + 1
    /\ rafQueue' = Append(rafQueue, Closure)
    /\ pendingMoves' = Append(pendingMoves, newPosition)

handleMove(draggedIndex, newPosition) ==
    /\ latestDragInfo' = <<[index |-> draggedIndex, pos |-> newPosition]>>
    /\ IF animationFrameId = NoFrame
           THEN /\ animationFrameId' = Len(rafQueue) + 1
                /\ rafQueue' = Append(rafQueue, Closure)
           ELSE UNCHANGED <<animationFrameId, rafQueue>>
    /\ pendingMoves' = Append(pendingMoves, newPosition)

\* a list that takes a second entry for a key it already holds
Upsert_Append(entries, key, value) ==
    Append(entries, [index |-> key, pos |-> value])

\* Map.prototype.set on the entries of a Map, in insertion order
Upsert(entries, key, value) ==
    IF \E k \in 1 .. Len(entries) : entries[k].index = key
        THEN [k \in 1 .. Len(entries) |->
                 IF entries[k].index = key
                     THEN [index |-> key, pos |-> value]
                     ELSE entries[k]]
        ELSE Append(entries, [index |-> key, pos |-> value])

RECURSIVE anchorConstraints(_, _, _)
anchorConstraints(env, k, acc) ==
    IF k > Len(env.anchorIndices)
        THEN acc
        ELSE LET anchorIndex == env.anchorIndices[k]
             IN  anchorConstraints(env, k + 1,
                     IF anchorIndex \in DOMAIN env.handlePositions
                         THEN Upsert(acc, anchorIndex, env.handlePositions[anchorIndex])
                         ELSE acc)

RECURSIVE handleConstraints(_, _, _, _)
handleConstraints(env, drag, k, acc) ==
    IF k > Len(env.handleIndices)
        THEN acc
        ELSE LET handleIndex == env.handleIndices[k]
             IN  handleConstraints(env, drag, k + 1,
                     IF handleIndex = drag.index
                         THEN Upsert(acc, handleIndex, drag.pos)
                         ELSE IF handleIndex \in DOMAIN env.handlePositions
                                  THEN Upsert(acc, handleIndex,
                                              env.handlePositions[handleIndex])
                                  ELSE acc)

\* a payload built from the anchors alone
allConstraints_AnchorsOnly(env, drag) ==
    anchorConstraints(env, 1, <<>>)

allConstraints(env, drag) ==
    handleConstraints(env, drag, 1, anchorConstraints(env, 1, <<>>))

payloadIndices(all) == [k \in 1 .. Len(all) |-> all[k].index]

payloadPositions(all) == [k \in 1 .. Len(all) |-> worldToLocal(all[k].pos)]

\* a validation that lets every payload through
containsInvalidNumbers_Never(arr) == FALSE

containsInvalidNumbers(arr) == \E k \in 1 .. Len(arr) : ~isFinite(arr[k])

SetHandlesCall(indices, positions) ==
    [fn |-> "set_handles", indices |-> indices, positions |-> positions, iterations |-> 0]

SolveCall(maxIterations) ==
    [fn |-> "solve", indices |-> <<>>, positions |-> <<>>, iterations |-> maxIterations]

GetVerticesCall ==
    [fn |-> "get_vertices", indices |-> <<>>, positions |-> <<>>, iterations |-> 0]

\* WasmSolverService.setHandles without the guard of arap.d.ts:103
setHandles_NoSessionCheck(svc, indices, positions) ==
    [outcome |-> "ok", calls |-> <<SetHandlesCall(indices, positions)>>]

\* WasmSolverService.setHandles, arap.d.ts:102-105
setHandles(svc, indices, positions) ==
    IF ~svc.controller
        THEN [outcome |-> "NoSession", calls |-> NoCalls]
        ELSE [outcome |-> "ok", calls |-> <<SetHandlesCall(indices, positions)>>]

\* the solve issued before the constraints are uploaded
solverCalls_SolveFirst(indices, positions) ==
    <<SolveCall(SolveIterations), SetHandlesCall(indices, positions), GetVerticesCall>>

solverCalls(indices, positions) ==
    <<SetHandlesCall(indices, positions), SolveCall(SolveIterations), GetVerticesCall>>

\* a read of the result at a constraint index: past its end it gives undefined,
\* and new THREE.Vector3(undefined, undefined, undefined) is the origin
newConstraintPositions(env, newAllVertices) ==
    [c \in Elems(env.handleIndices) \cup Elems(env.anchorIndices) |->
        localToWorld(IF c \in DOMAIN newAllVertices THEN newAllVertices[c] ELSE Origin)]

\* Float32Array.prototype.set, under copyArray, throws when the source is longer
copyArrayThrows(newVertices) == Cardinality(DOMAIN newVertices) > NumVerts

\* Model.updateVertices: copyArray overwrites the leading part of the position buffer
updateVertices(buffer, newVertices) ==
    [v \in Verts |-> IF v \in DOMAIN newVertices THEN newVertices[v] ELSE buffer[v]]

\* the stored positions rebuilt from the result even when there is none
applyResult_NoNullCheck(env, result) ==
    IF result # <<>>
        THEN /\ geometry' = <<updateVertices(geometry[1], result[1])>>
             /\ handlePositions' = newConstraintPositions(env, result[1])
        ELSE /\ handlePositions' = EmptyMap
             /\ UNCHANGED geometry

\* App.tsx:386-401; result: <<>> when getVertices returned null, else <<buffer>>
applyResult(env, result) ==
    IF result # <<>>
        THEN /\ geometry' = <<updateVertices(geometry[1], result[1])>>
             /\ handlePositions' = newConstraintPositions(env, result[1])
        ELSE UNCHANGED <<handlePositions, geometry>>

\* env: the render state the callback closed over when the frame was requested
runDeformation(env, result) ==
    IF latestDragInfo = <<>> \/ ~env.isWasmReady
        THEN /\ animationFrameId' = NoFrame
             /\ last' = FrameStep(env, NoIndex, "notReady", NoCalls)
             /\ UNCHANGED <<handlePositions, geometry>>
        ELSE LET drag == latestDragInfo[1]
                 all == allConstraints(env, drag)
                 indices == payloadIndices(all)
                 positions == payloadPositions(all)
             IN  IF containsInvalidNumbers(indices) \/ containsInvalidNumbers(positions)
                     THEN /\ last' = FrameStep(env, drag.index, "invalid", NoCalls)
                          /\ UNCHANGED <<animationFrameId, handlePositions, geometry>>
                     ELSE IF setHandles(service, indices, positions).outcome = "NoSession"
                         \* setHandles throws out of the callback, arap.d.ts:103
                         THEN /\ last' = FrameStep(env, drag.index, "noSession", NoCalls)
                              /\ UNCHANGED <<animationFrameId, handlePositions, geometry>>
                         ELSE IF result # <<>> /\ copyArrayThrows(result[1])
                             \* updateVertices throws out of the callback, App.tsx:77
                             THEN /\ last' = [FrameStep(env, drag.index, "rangeError",
                                                        solverCalls(indices, positions))
                                                 EXCEPT !.result = result]
                                  /\ UNCHANGED <<animationFrameId, handlePositions,
                                                 geometry>>
                             ELSE /\ last' = [FrameStep(env, drag.index,
                                                  IF result = <<>> THEN "noResult"
                                                                   ELSE "solved",
                                                  solverCalls(indices, positions))
                                                 EXCEPT !.result = result]
                                  /\ applyResult(env, result)
                                  /\ animationFrameId' = NoFrame

-----------------------------------------------------------------------------
(* Solver Session facade: WasmSolverService, arap.d.ts:54-124.  The engine  *)
(* record counts what the facade asked of the external engine: loads, the   *)
(* script/module loads begun; modules, the modules instantiated; deleted,   *)
(* for each controller constructed, in order, the delete() calls on it.     *)
(* this.controller is assigned a controller only at arap.d.ts:98, so when   *)
(* it is not null it refers to the controller constructed last.             *)

DeleteCall ==
    [fn |-> "delete", indices |-> <<>>, positions |-> <<>>, iterations |-> 0]

NewControllerCall ==
    [fn |-> "new", indices |-> <<>>, positions |-> <<>>, iterations |-> 0]

\* this.controller refers to a controller that delete() was already called on
isDeleted(svc, eng) == svc.controller /\ eng.deleted[Len(eng.deleted)] > 0

\* this.controller.delete()
deleteController(eng) == [eng EXCEPT !.deleted[Len(eng.deleted)] = @ + 1]

\* init() without the guard of arap.d.ts:70-73
init_NoGuard(svc, eng, calls) ==
    [outcome |-> "pending", calls |-> Append(calls, FALSE),
     engine |-> [eng EXCEPT !.loads = @ + 1]]

\* init() up to its first await, arap.d.ts:69-76
init(svc, eng, calls) ==
    IF svc.ctor
        THEN [outcome |-> "resolved", calls |-> calls, engine |-> eng]
        ELSE [outcome |-> "pending", calls |-> Append(calls, FALSE),
              engine |-> [eng EXCEPT !.loads = @ + 1]]

\* init() resumed after its awaits, arap.d.ts:77-85; loaded: script and module loaded
initResumed(svc, eng, loaded) ==
    IF loaded
        THEN [outcome |-> "resolved", service |-> [svc EXCEPT !.ctor = TRUE],
              engine |-> [eng EXCEPT !.modules = @ + 1]]
        ELSE [outcome |-> "EngineLoadFailure", service |-> svc, engine |-> eng]

\* loadMesh without the guard of arap.d.ts:90-92
loadMesh_NoInitCheck(svc, eng, built, deleteOk) ==
    IF built
        THEN [outcome |-> "ok", calls |-> <<NewControllerCall>>,
              service |-> [svc EXCEPT !.controller = TRUE],
              engine |-> [eng EXCEPT !.deleted = Append(@, 0)]]
        ELSE [outcome |-> "InvalidMesh", calls |-> <<NewControllerCall>>,
              service |-> svc, engine |-> eng]

\* built: the engine's constructor returns a controller (else it throws);
\* deleteOk: delete() on an already deleted controller returns (else it throws)
loadMesh(svc, eng, built, deleteOk) ==
    IF ~svc.ctor
        THEN [outcome |-> "NotInitialized", calls |-> NoCalls, service |-> svc,
              engine |-> eng]
        ELSE LET afterDelete == IF svc.controller THEN deleteController(eng) ELSE eng
                 deleteCalls == IF svc.controller THEN <<DeleteCall>> ELSE NoCalls
             IN  IF isDeleted(svc, eng) /\ ~deleteOk
                     THEN [outcome |-> "EngineError", calls |-> deleteCalls,
                           service |-> svc, engine |-> afterDelete]
                     ELSE IF built
                         THEN [outcome |-> "ok",
                               calls |-> Append(deleteCalls, NewControllerCall),
                               service |-> [svc EXCEPT !.controller = TRUE],
                               engine |-> [afterDelete EXCEPT
                                              !.deleted = Append(@, 0)]]
                         ELSE [outcome |-> "InvalidMesh",
                               calls |-> Append(deleteCalls, NewControllerCall),
                               service |-> svc, engine |-> afterDelete]

solve(svc, maxIterations) ==
    IF ~svc.controller
        THEN [outcome |-> "NoSession", calls |-> NoCalls]
        ELSE [outcome |-> "ok", calls |-> <<SolveCall(maxIterations)>>]

getVertices(svc) ==
    IF ~svc.controller
        THEN [outcome |-> "NoSession", calls |-> NoCalls]
        ELSE [outcome |-> "ok", calls |-> <<GetVerticesCall>>]

cleanup(svc, eng, deleteOk) ==
    IF isDeleted(svc, eng) /\ ~deleteOk
        THEN [outcome |-> "EngineError", calls |-> <<DeleteCall>>, service |-> svc,
              engine |-> deleteController(eng)]
        ELSE [outcome |-> "ok",
              calls |-> IF svc.controller THEN <<DeleteCall>> ELSE NoCalls,
              service |-> [ctor |-> FALSE, controller |-> FALSE],
              engine |-> IF svc.controller THEN deleteController(eng) ELSE eng]

-----------------------------------------------------------------------------
(* The facade as the App drives it: App.tsx:238-272 *)

\* the effect of App.tsx:253-272, run after a render that changed its dependencies
loadMeshEffect(svc, eng, ready, loaded, built) ==
    IF ready /\ loaded
        THEN LET run == loadMesh(svc, eng, built, TRUE)
             IN  /\ service' = run.service
                 /\ engine' = run.engine
                 /\ wasmError' = (wasmError \/ run.outcome # "ok")
        ELSE /\ service' = svc
             /\ engine' = eng
             /\ UNCHANGED wasmError

\* the init() of App.tsx:239 resolves: .then sets isWasmReady, and the render that
\* follows runs the loadMesh effect
InitResolved ==
    /\ initPending
    /\ initPending' = FALSE
    /\ initCalls' = Tail(initCalls)
    /\ isWasmReady' = TRUE
    /\ LET resumed == initResumed(service, engine, TRUE)
       IN  \E built \in BOOLEAN :
               loadMeshEffect(resumed.service, resumed.engine, TRUE, geometry # <<>>,
                              built)
    /\ last' = Step("initResolved", NoIndex)
    /\ UNCHANGED <<mode, constraintVars, meshVars, dragState, schedVars>>

InitRejected ==
    /\ initPending
    /\ initPending' = FALSE
    /\ initCalls' = Tail(initCalls)
    /\ wasmError' = TRUE
    /\ LET resumed == initResumed(service, engine, FALSE)
       IN  /\ service' = resumed.service
           /\ engine' = resumed.engine
    /\ last' = Step("initRejected", NoIndex)
    /\ UNCHANGED <<mode, constraintVars, meshVars, dragState, schedVars, isWasmReady>>

\* Model's load effect, App.tsx:38-62, and the loadMesh effect it triggers
ModelLoaded ==
    /\ geometry = <<>>
    /\ \E mesh \in Meshes : geometry' = <<mesh>>
    /\ \E built \in BOOLEAN : loadMeshEffect(service, engine, isWasmReady, TRUE, built)
    /\ last' = Step("modelLoaded", NoIndex)
    /\ UNCHANGED <<mode, constraintVars, xform, dragState, schedVars, isWasmReady,
                   initPending, initCalls>>

-----------------------------------------------------------------------------
(* UI shell: App.tsx:422-435, 456-467, 280-293 *)

setMode ==
    /\ \E m \in Modes \ {mode} : mode' = m
    /\ last' = Step("setMode", NoIndex)
    /\ UNCHANGED <<constraintVars, engineVars, meshVars, dragState, schedVars>>

\* the Clear Selection button rendered in every mode
ClearSelectionClicked_AnyMode ==
    /\ Len(handleIndices) > 0 \/ Len(anchorIndices) > 0
    /\ clearSelection
    /\ last' = Step("clear", NoIndex)
    /\ UNCHANGED <<mode, engineVars, meshVars, dragState, schedVars>>

ClearSelectionClicked ==
    /\ mode = "select"
    /\ Len(handleIndices) > 0 \/ Len(anchorIndices) > 0
    /\ clearSelection
    /\ last' = Step("clear", NoIndex)
    /\ UNCHANGED <<mode, engineVars, meshVars, dragState, schedVars>>

RotateModel ==
    /\ mode = "view"
    /\ geometry # <<>>
    /\ \E t \in Turns \ {xform} : xform' = t
    /\ last' = Step("rotate", NoIndex)
    /\ UNCHANGED <<mode, constraintVars, engineVars, geometry, dragState, schedVars>>

handleTransformEnd ==
    /\ mode = "view"
    /\ geometry # <<>>
    /\ handlePositions' = [index \in Elems(handleIndices) \cup Elems(anchorIndices) |->
                              getVertexWorldPosition(index)]
    /\ last' = Step("transformEnd", NoIndex)
    /\ UNCHANGED <<mode, handleIndices, anchorIndices, engineVars, meshVars, dragState,
                   schedVars>>

-----------------------------------------------------------------------------
(* Interaction State Machine: DeformationController, App.tsx:135-205 *)

Modifiers == {"alt", "ctrl", "none"}

\* what the ray through the pointer hits on the mesh: nothing, or a world point
Rays == {<<>>} \cup {<<p>> : p \in Points}

\* the markers a ray can hit: one per entry of handlePositions, App.tsx:86-100
Markers == {m \in DOMAIN handlePositions : isFinite(handlePositions[m])}

PointerDownStep(op, index, picked, modifier) ==
    [Step(op, index) EXCEPT !.event = [picked |-> picked, modifier |-> modifier]]

\* onPointerDown in Select mode that takes any pointer-down on the mesh as a
\* handle selection
selectPointerDown_AnyModifier(ray, modifier) ==
    LET vertexIndex == IF ray = <<>>
                           THEN NoIndex
                           ELSE findNearestVertexIndex(ray[1], geometry[1])
    IN  IF vertexIndex # NoIndex
            THEN /\ handleVertexSelected(vertexIndex)
                 /\ last' = PointerDownStep("selectHandle", vertexIndex, vertexIndex, modifier)
            ELSE /\ UNCHANGED constraintVars
                 /\ last' = PointerDownStep("pointerDown", NoIndex, vertexIndex, modifier)

selectPointerDown(ray, modifier) ==
    LET vertexIndex == IF ray = <<>>
                           THEN NoIndex
                           ELSE findNearestVertexIndex(ray[1], geometry[1])
    IN  IF vertexIndex # NoIndex /\ modifier = "alt"
            THEN /\ handleVertexSelected(vertexIndex)
                 /\ last' = PointerDownStep("selectHandle", vertexIndex, vertexIndex, modifier)
            ELSE IF vertexIndex # NoIndex /\ modifier = "ctrl"
                THEN /\ handleAnchorSelected(vertexIndex)
                     /\ last' = PointerDownStep("toggleAnchor", vertexIndex, vertexIndex, modifier)
                ELSE /\ UNCHANGED constraintVars
                     /\ last' = PointerDownStep("pointerDown", NoIndex, vertexIndex, modifier)

\* hit: the marker the ray hits first, or NoIndex
deformPointerDown(hit) ==
    IF hit # NoIndex
        THEN /\ dragState' = [isDragging |-> TRUE, handleIndex |-> hit]
             /\ last' = Step("dragStart", hit)
        ELSE /\ UNCHANGED dragState
             /\ last' = Step("pointerDown", NoIndex)

\* onPointerDown while mode = 'select', App.tsx:146-162
onPointerDownSelect ==
    /\ geometry # <<>>
    /\ mode = "select"
    /\ \E ray \in Rays, modifier \in Modifiers : selectPointerDown(ray, modifier)
    /\ UNCHANGED <<mode, dragState, engineVars, meshVars, schedVars>>

\* two pointer-downs on one vertex in Select mode before the next render, the first
\* with Alt, the second with Ctrl
onPointerDownSelectSameRender ==
    /\ geometry # <<>>
    /\ mode = "select"
    /\ \E ray \in Rays \ {<<>>} :
           LET vertexIndex == findNearestVertexIndex(ray[1], geometry[1])
           IN  /\ vertexIndex # NoIndex
               /\ handleVertexThenAnchorSelected(vertexIndex)
               /\ last' = PointerDownStep("selectThenToggle", vertexIndex, vertexIndex,
                                          "ctrl")
    /\ UNCHANGED <<mode, dragState, engineVars, meshVars, schedVars>>

\* a pointer-down in Select mode with neither Alt nor Ctrl held: the vertex is
\* resolved and nothing is selected; the step also records the ray
onPointerDownPick ==
    /\ geometry # <<>>
    /\ mode = "select"
    /\ \E ray \in Rays :
           LET vertexIndex == IF ray = <<>>
                                  THEN NoIndex
                                  ELSE findNearestVertexIndex(ray[1], geometry[1])
           IN  last' = [Step("pick", NoIndex) EXCEPT
                           !.event = [picked |-> vertexIndex, modifier |-> "none",
                                      ray |-> ray]]
    /\ UNCHANGED <<mode, constraintVars, dragState, engineVars, meshVars, schedVars>>

\* onPointerDown while mode = 'deform', App.tsx:163-178
onPointerDownDeform ==
    /\ geometry # <<>>
    /\ mode = "deform"
    /\ \E hit \in Markers \cup {NoIndex} : deformPointerDown(hit)
    /\ UNCHANGED <<mode, constraintVars, engineVars, meshVars, schedVars>>

\* onPointerDown while mode = 'view': neither branch is taken
onPointerDownView ==
    /\ geometry # <<>>
    /\ mode = "view"
    /\ last' = Step("pointerDown", NoIndex)
    /\ UNCHANGED <<mode, constraintVars, dragState, engineVars, meshVars, schedVars>>

\* onPointerMove without the mode test of App.tsx:182
onPointerMove_NoModeCheck ==
    /\ geometry # <<>>
    /\ IF ~dragState.isDragging
           THEN /\ last' = Step("pointerMove", NoIndex)
                /\ UNCHANGED schedVars
           ELSE /\ Len(pendingMoves) < MaxMoves
                /\ \E intersectionPoint \in Points :
                       handleMove(dragState.handleIndex, intersectionPoint)
                /\ last' = Step("handleMove", dragState.handleIndex)
    /\ UNCHANGED <<mode, constraintVars, engineVars, meshVars, dragState>>

\* onPointerUp that leaves the dragged index in place
onPointerUp_KeepIndex ==
    /\ geometry # <<>>
    /\ IF dragState.isDragging
           THEN dragState' = [dragState EXCEPT !.isDragging = FALSE]
           ELSE UNCHANGED dragState
    /\ last' = Step("pointerUp", NoIndex)
    /\ UNCHANGED <<mode, constraintVars, engineVars, meshVars, schedVars>>

onPointerMove ==
    /\ geometry # <<>>
    /\ IF ~dragState.isDragging \/ mode # "deform"
           THEN /\ last' = Step("pointerMove", NoIndex)
                /\ UNCHANGED schedVars
           ELSE /\ Len(pendingMoves) < MaxMoves
                /\ \E intersectionPoint \in Points :
                       handleMove(dragState.handleIndex, intersectionPoint)
                /\ last' = Step("handleMove", dragState.handleIndex)
    /\ UNCHANGED <<mode, constraintVars, engineVars, meshVars, dragState>>

onPointerUp ==
    /\ geometry # <<>>
    /\ IF dragState.isDragging
           THEN dragState' = [isDragging |-> FALSE, handleIndex |-> NoIndex]
           ELSE UNCHANGED dragState
    /\ last' = Step("pointerUp", NoIndex)
    /\ UNCHANGED <<mode, constraintVars, engineVars, meshVars, schedVars>>

\* the browser runs the oldest requested frame callback
FrameTick ==
    /\ rafQueue # <<>>
    /\ rafQueue' = Tail(rafQueue)
    /\ pendingMoves' = <<>>
    /\ \E result \in {<<>>} \cup {<<b>> : b \in SolverResults \cup MismatchedResults} :
           runDeformation(Head(rafQueue), result)
    /\ UNCHANGED <<mode, handleIndices, anchorIndices, engineVars, xform, dragState,
                   latestDragInfo>>

-----------------------------------------------------------------------------

InitApp ==
    /\ mode = "view"
    /\ handleIndices = <<>>
    /\ anchorIndices = <<>>
    /\ handlePositions = EmptyMap
    /\ isWasmReady = FALSE
    /\ wasmError = FALSE
    /\ geometry = <<>>
    /\ xform = 0
    /\ dragState = [isDragging |-> FALSE, handleIndex |-> NoIndex]
    /\ animationFrameId = NoFrame
    /\ latestDragInfo = <<>>
    /\ rafQueue = <<>>
    /\ service = [ctor |-> FALSE, controller |-> FALSE]
    /\ initPending = TRUE
    /\ initCalls = <<FALSE>>
    /\ engine = [loads |-> 1, modules |-> 0, deleted |-> <<>>]
    /\ pendingMoves = <<>>
    /\ last = Step("init", NoIndex)

Next ==
    \/ InitResolved
    \/ InitRejected
    \/ ModelLoaded
    \/ setMode
    \/ ClearSelectionClicked
    \/ RotateModel
    \/ handleTransformEnd
    \/ onPointerDownSelect
    \/ onPointerDownSelectSameRender
    \/ onPointerDownDeform
    \/ onPointerDownView
    \/ onPointerMove
    \/ onPointerUp
    \/ FrameTick

\* the whole application
Spec == InitApp /\ [][Next]_vars

-----------------------------------------------------------------------------
(* Selection sessions: the application from its start, while the engine is  *)
(* still loading; the pointer is used in View and Select mode only, and     *)
(* every pointer-down is rendered before the next arrives.                  *)

NextSelect ==
    \/ ModelLoaded
    \/ setMode
    \/ ClearSelectionClicked
    \/ RotateModel
    \/ handleTransformEnd
    \/ onPointerDownSelect
    \/ onPointerDownView

SpecSelect == InitApp /\ [][NextSelect]_vars

-----------------------------------------------------------------------------
(* Deform sessions: the model is loaded, the user has made a selection in   *)
(* Select mode and has switched to Deform; the engine is still loading, or  *)
(* is ready with a session, or is ready and rejected the mesh.              *)

\* selections a Select session leaves behind (handleIndices, anchorIndices)
Selections ==
    {<<<<0>>, <<>>>>, <<<<0>>, <<1>>>>, <<<<1, 0>>, <<>>>>, <<<<>>, <<0, 1>>>>,
     <<<<0>>, <<0>>>>}

\* some ray resolves to the vertex, so Select mode can have selected it
Pickable(index, buffer) ==
    \E p \in Points : findNearestVertexIndex(p, buffer) = index

EngineStates ==
    {[pending |-> TRUE, ready |-> FALSE, controller |-> FALSE],
     [pending |-> FALSE, ready |-> TRUE, controller |-> TRUE],
     [pending |-> FALSE, ready |-> TRUE, controller |-> FALSE]}

InitDeform ==
    /\ mode = "deform"
    /\ \E mesh \in Meshes : geometry = <<mesh>>
    /\ xform \in Turns
    /\ \E sel \in Selections :
           /\ handleIndices = sel[1]
           /\ anchorIndices = sel[2]
    /\ \A index \in Elems(handleIndices) \cup Elems(anchorIndices) :
           Pickable(index, geometry[1])
    /\ handlePositions = [index \in Elems(handleIndices) \cup Elems(anchorIndices) |->
                             getVertexWorldPosition(index)]
    /\ \E e \in EngineStates :
           /\ initPending = e.pending
           /\ isWasmReady = e.ready
           /\ service = [ctor |-> e.ready, controller |-> e.controller]
           /\ wasmError = (e.ready /\ ~e.controller)
           /\ initCalls = IF e.pending THEN <<FALSE>> ELSE <<>>
           /\ engine = [loads |-> 1, modules |-> IF e.ready THEN 1 ELSE 0,
                        deleted |-> IF e.controller THEN <<0>> ELSE <<>>]
    /\ dragState = [isDragging |-> FALSE, handleIndex |-> NoIndex]
    /\ animationFrameId = NoFrame
    /\ latestDragInfo = <<>>
    /\ rafQueue = <<>>
    /\ pendingMoves = <<>>
    /\ last = Step("setMode", NoIndex)

NextDeform ==
    \/ InitResolved
    \/ InitRejected
    \/ onPointerDownDeform
    \/ onPointerMove
    \/ onPointerUp
    \/ FrameTick

SpecDeform == InitDeform /\ [][NextDeform]_vars

-----------------------------------------------------------------------------
(* Interaction sessions: a loaded model with a selection, as a Deform       *)
(* session starts; the user moves between the modes and uses the pointer    *)
(* on the canvas in View and Deform mode.  No frame callback runs.          *)

NextInteract ==
    \/ setMode
    \/ onPointerDownView
    \/ onPointerDownDeform
    \/ onPointerMove
    \/ onPointerUp

SpecInteract == InitDeform /\ [][NextInteract]_vars

-----------------------------------------------------------------------------
(* Startup sessions: the application from its start, while the engine and   *)
(* the model load in either order and the user moves between the modes and  *)
(* turns the model in View mode.                                            *)

NextStartup ==
    \/ InitResolved
    \/ InitRejected
    \/ ModelLoaded
    \/ setMode
    \/ RotateModel
    \/ handleTransformEnd

SpecStartup == InitApp /\ [][NextStartup]_vars

-----------------------------------------------------------------------------
(* Fast selection sessions: a selection session in which two pointer-downs  *)
(* on one vertex may also arrive within one render.                         *)

NextFastSelect ==
    \/ ModelLoaded
    \/ setMode
    \/ ClearSelectionClicked
    \/ RotateModel
    \/ handleTransformEnd
    \/ onPointerDownSelect
    \/ onPointerDownSelectSameRender
    \/ onPointerDownView

SpecFastSelect == InitApp /\ [][NextFastSelect]_vars

-----------------------------------------------------------------------------
(* Picking sessions: a loaded model whose position buffer holds any finite  *)
(* or non-finite vertices (a solve may have left them anywhere), turned by  *)
(* any amount; the user points at the canvas with no modifier key held.     *)

InitPick ==
    /\ mode \in {"view", "select"}
    /\ \E buffer \in [Verts -> Points \cup {NaN}] : geometry = <<buffer>>
    /\ xform \in Turns
    /\ handleIndices = <<>>
    /\ anchorIndices = <<>>
    /\ handlePositions = EmptyMap
    /\ isWasmReady = FALSE
    /\ wasmError = FALSE
    /\ dragState = [isDragging |-> FALSE, handleIndex |-> NoIndex]
    /\ animationFrameId = NoFrame
    /\ latestDragInfo = <<>>
    /\ rafQueue = <<>>
    /\ service = [ctor |-> FALSE, controller |-> FALSE]
    /\ initPending = TRUE
    /\ initCalls = <<FALSE>>
    /\ engine = [loads |-> 1, modules |-> 0, deleted |-> <<>>]
    /\ pendingMoves = <<>>
    /\ last = Step("modelLoaded", NoIndex)

NextPick ==
    \/ onPointerDownPick
    \/ onPointerDownView
    \/ RotateModel

SpecPick == InitPick /\ [][NextPick]_vars

-----------------------------------------------------------------------------
(* Editing sessions: a loaded model with one handle and a live solver       *)
(* session, as a Deform session starts; the user drags the handle, leaves   *)
(* Deform for Select while a requested frame may still be to run, and edits *)
(* the selection there.                                                     *)

InitEdit ==
    /\ InitDeform
    /\ geometry = <<[v \in Verts |-> v % Sectors]>>
    /\ handleIndices = <<0>>
    /\ anchorIndices = <<>>
    /\ xform = 0
    /\ isWasmReady
    /\ service.controller

\* the mode radio group, from Deform to Select
leaveDeform ==
    /\ mode = "deform"
    /\ setMode
    /\ mode' = "select"

NextEdit ==
    \/ leaveDeform
    \/ ClearSelectionClicked
    \/ onPointerDownSelect
    \/ onPointerDownDeform
    \/ onPointerMove
    \/ FrameTick

SpecEdit == InitEdit /\ [][NextEdit]_vars

-----------------------------------------------------------------------------
(* Mode sessions: an editing session's start; the user moves between the    *)
(* three modes, turns the model in View mode, drags in Deform mode and may  *)
(* clear the selection in Select mode, while requested frames run in any    *)
(* mode.                                                                    *)

NextModes ==
    \/ setMode
    \/ ClearSelectionClicked
    \/ RotateModel
    \/ handleTransformEnd
    \/ onPointerDownView
    \/ onPointerDownDeform
    \/ onPointerMove
    \/ FrameTick

SpecModes == InitEdit /\ [][NextModes]_vars

-----------------------------------------------------------------------------
(* Facade sessions: a client of the exported WasmSolverService singleton    *)
(* (arap.d.ts:126) calls its methods in any order, and the init() calls it  *)
(* has in flight settle in any order.  The App is one such client: it calls *)
(* init() when it mounts and cleanup() when it unmounts (App.tsx:238-251).  *)

appVars == <<mode, constraintVars, meshVars, dragState, schedVars, isWasmReady, wasmError,
             initPending>>

RemoveAt(seq, k) == [j \in 1 .. (Len(seq) - 1) |-> IF j < k THEN seq[j] ELSE seq[j + 1]]

FacadeStep(op, index, outcome, calls) ==
    [Step(op, index) EXCEPT !.outcome = outcome, !.calls = calls]

\* what a call made through a controller ends with: a call on a deleted controller
\* is the engine's to answer, and an exception passes through the facade
engineOutcome(run, callOk) ==
    IF run.calls # NoCalls /\ isDeleted(service, engine) /\ ~callOk
        THEN "EngineError"
        ELSE run.outcome

ClientInit ==
    /\ service.ctor \/ engine.loads < MaxInits
    /\ LET run == init(service, engine, initCalls)
       IN  /\ initCalls' = run.calls
           /\ engine' = run.engine
           /\ last' = FacadeStep("init", NoIndex, run.outcome, NoCalls)
    /\ UNCHANGED <<service, appVars>>

ClientInitResumed ==
    /\ \E k \in 1 .. Len(initCalls), loaded \in BOOLEAN :
           LET run == initResumed(service, engine, loaded)
           IN  /\ initCalls' = RemoveAt(initCalls, k)
               /\ service' = run.service
               /\ engine' = run.engine
               /\ last' = FacadeStep("initResumed", k, run.outcome, NoCalls)
    /\ UNCHANGED appVars

ClientLoadMesh ==
    /\ service.controller => engine.deleted[Len(engine.deleted)] < MaxDeletes
    /\ \E built \in BOOLEAN, deleteOk \in BOOLEAN :
           LET run == loadMesh(service, engine, built, deleteOk)
           IN  /\ Len(run.engine.deleted) <= MaxControllers
               /\ service' = run.service
               /\ engine' = run.engine
               /\ last' = FacadeStep("loadMesh", NoIndex, run.outcome, run.calls)
    /\ UNCHANGED <<initCalls, appVars>>

ClientSetHandles ==
    /\ \E callOk \in BOOLEAN :
           LET run == setHandles(service, <<0>>, <<0>>)
           IN  last' = FacadeStep("setHandles", NoIndex, engineOutcome(run, callOk),
                                  run.calls)
    /\ UNCHANGED <<service, engine, initCalls, appVars>>

ClientSolve ==
    /\ \E callOk \in BOOLEAN :
           LET run == solve(service, SolveIterations)
           IN  last' = FacadeStep("solve", NoIndex, engineOutcome(run, callOk), run.calls)
    /\ UNCHANGED <<service, engine, initCalls, appVars>>

ClientGetVertices ==
    /\ \E callOk \in BOOLEAN :
           LET run == getVertices(service)
           IN  last' = FacadeStep("getVertices", NoIndex, engineOutcome(run, callOk),
                                  run.calls)
    /\ UNCHANGED <<service, engine, initCalls, appVars>>

ClientCleanup ==
    /\ service.controller => engine.deleted[Len(engine.deleted)] < MaxDeletes
    /\ \E deleteOk \in BOOLEAN :
           LET run == cleanup(service, engine, deleteOk)
           IN  /\ service' = run.service
               /\ engine' = run.engine
               /\ last' = FacadeStep("cleanup", NoIndex, run.outcome, run.calls)
    /\ initCalls' = [k \in 1 .. Len(initCalls) |-> TRUE]
    /\ UNCHANGED appVars

\* the singleton as the module creates it, before any client has called it
InitFacade ==
    /\ mode = "view"
    /\ handleIndices = <<>>
    /\ anchorIndices = <<>>
    /\ handlePositions = EmptyMap
    /\ isWasmReady = FALSE
    /\ wasmError = FALSE
    /\ geometry = <<>>
    /\ xform = 0
    /\ dragState = [isDragging |-> FALSE, handleIndex |-> NoIndex]
    /\ animationFrameId = NoFrame
    /\ latestDragInfo = <<>>
    /\ rafQueue = <<>>
    /\ service = [ctor |-> FALSE, controller |-> FALSE]
    /\ initPending = FALSE
    /\ initCalls = <<>>
    /\ engine = [loads |-> 0, modules |-> 0, deleted |-> <<>>]
    /\ pendingMoves = <<>>
    /\ last = Step("created", NoIndex)

NextFacade ==
    \/ ClientInit
    \/ ClientInitResumed
    \/ ClientLoadMesh
    \/ ClientSetHandles
    \/ ClientSolve
    \/ ClientGetVertices
    \/ ClientCleanup

SpecFacade == InitFacade /\ [][NextFacade]_vars

-----------------------------------------------------------------------------
(* Claims about the Constraint Set, under SpecSelect *)

\* C1: after any sequence of selectHandle, toggleAnchor and clear calls, no vertex
\* index is in both the handle set and the anchor set.
C1_HandleAnchorDisjoint ==
    Elems(handleIndices) \cap Elems(anchorIndices) = {}

\* C2: selectHandle on an index that is an Anchor removes it from the anchor set and
\* adds it to the handle set; afterwards it is a Handle only and its stored position
\* is the world position of the vertex.
C2_SelectHandleReplacesAnchor ==
    [][(last'.op = "selectHandle" /\ Includes(anchorIndices, last'.index))
          => /\ ~Includes(anchorIndices', last'.index)
             /\ Includes(handleIndices', last'.index)
             /\ last'.index \in DOMAIN handlePositions'
             /\ handlePositions'[last'.index] = getVertexWorldPosition(last'.index)]_vars

\* C3: toggleAnchor on an index that is in the handle set changes neither the handle
\* set, nor the anchor set, nor any stored target position.
C3_ToggleAnchorOnHandleNoOp ==
    [][(last'.op = "toggleAnchor" /\ Includes(handleIndices, last'.index))
          => UNCHANGED <<handleIndices, anchorIndices, handlePositions>>]_vars

\* C3 witness: toggleAnchor has just run on a vertex that is a handle, while the
\* Constraint Set holds a stored position for it.
C3_Witness ==
    /\ last.op = "toggleAnchor"
    /\ Includes(handleIndices, last.index)
    /\ last.index \in DOMAIN handlePositions

-----------------------------------------------------------------------------
(* Claims about the Deformation Scheduler, under SpecDeform *)

FnsOf(calls) == [k \in 1 .. Len(calls) |-> calls[k].fn]

CountOf(calls, fn) == Cardinality({k \in 1 .. Len(calls) : calls[k].fn = fn})

\* the local positions a call log submits for a vertex
SubmittedFor(calls, index) ==
    UNION {{calls[k].positions[j] :
               j \in {n \in 1 .. Len(calls[k].indices) : calls[k].indices[n] = index}} :
           k \in {n \in 1 .. Len(calls) : calls[n].fn = "set_handles"}}

\* C4 as stated: after N >= 1 onHandleMove calls with P1..PN, the frame callback
\* submits the dragged handle's constraint at exactly PN (in local space) and
\* invokes the solver exactly once (stated here for the callbacks in which the
\* facade raises no error).
C4_FrameSolvesOnceWithLatest ==
    (last.op = "frame" /\ Len(last.moves) >= 1 /\ latestDragInfo # <<>>
        /\ Includes(handleIndices, latestDragInfo[1].index)
        /\ last.outcome # "noSession")
        => /\ CountOf(last.calls, "solve") = 1
           /\ SubmittedFor(last.calls, latestDragInfo[1].index)
                  = {worldToLocal(last.moves[Len(last.moves)])}

\* C4 amended: the frame callback that runs after N >= 1 onHandleMove calls reaches
\* the solver exactly when the engine was ready when the frame was requested, a
\* solver session exists and the payload is finite; it then uploads the constraints
\* once and solves once, with the dragged handle at exactly PN in local space and
\* none of P1..P(N-1); otherwise it issues no solver call at all.
C4_CoalescedToLatest ==
    (last.op = "frame" /\ Len(last.moves) >= 1)
        => LET PN == last.moves[Len(last.moves)]
               dragged == latestDragInfo[1].index
           IN  /\ latestDragInfo # <<>>
               /\ latestDragInfo[1].pos = PN
               /\ last.calls # NoCalls
                      <=> (last.ready /\ service.controller /\ last.outcome # "invalid")
               /\ last.calls # NoCalls
                      => /\ CountOf(last.calls, "set_handles") = 1
                         /\ CountOf(last.calls, "solve") = 1
                         /\ Includes(handleIndices, dragged)
                                => SubmittedFor(last.calls, dragged) = {worldToLocal(PN)}

\* C4 witness: two moves with different positions were coalesced into one frame
\* callback, which solved with the dragged handle.
C4_Witness ==
    /\ last.op = "frame"
    /\ Len(last.moves) >= 2
    /\ last.moves[1] # last.moves[Len(last.moves)]
    /\ last.outcome = "solved"
    /\ Includes(handleIndices, latestDragInfo[1].index)

\* C5: at most one frame callback is requested and not yet run, and one is
\* outstanding only while the frame-scheduled flag is set, so onHandleMove requests
\* a frame only when none is outstanding.
C5_AtMostOneFrameScheduled ==
    /\ Len(rafQueue) <= 1
    /\ rafQueue # <<>> => animationFrameId # NoFrame

\* C5 witness: a second onHandleMove arrived while a frame callback was outstanding.
C5_Witness ==
    /\ Len(rafQueue) = 1
    /\ Len(pendingMoves) >= 2
    /\ last.op = "handleMove"

\* C6: every frame callback run for a dragged handle that ends with no pending
\* request, engine not ready, validation abort, solver success or no solver result
\* leaves the frame-scheduled flag cleared.
C6_FrameClearsScheduledFlag ==
    (/\ last.op = "frame"
     /\ last.outcome \in {"notReady", "invalid", "solved", "noResult"}
     /\ latestDragInfo # <<>>
     /\ Includes(handleIndices, latestDragInfo[1].index))
        => animationFrameId = NoFrame

C8_NoResultLeavesMesh ==
    [][(last'.op = "frame" /\ last'.outcome = "noResult")
          => UNCHANGED <<geometry, handlePositions>>]_vars

\* C8 witness: a frame callback has just solved and received no vertices, with
\* constraints stored.
C8_Witness ==
    /\ last.op = "frame"
    /\ last.outcome = "noResult"
    /\ FnsOf(last.calls) = <<"set_handles", "solve", "get_vertices">>
    /\ DOMAIN handlePositions # {}

\* C9: a frame callback that reaches the solver issues set_handles, solve and
\* get_vertices in that order, each once, and solve with the iteration budget 50.
C9_SolverCallOrder ==
    (last.op = "frame" /\ last.calls # NoCalls)
        => /\ FnsOf(last.calls) = <<"set_handles", "solve", "get_vertices">>
           /\ last.calls[2].iterations = 50

\* C9 witness: a frame callback has just reached the solver.
C9_Witness ==
    /\ last.op = "frame"
    /\ last.calls # NoCalls
    /\ last.outcome = "solved"

\* C10: a Drag Session is opened only by a pointer-down on the marker of a vertex
\* whose role is Handle; a pointer-down on an anchor's marker opens no session.
C10_DragOpensOnHandleOnly ==
    (last.op = "dragStart")
        => /\ dragState.isDragging
           /\ Includes(handleIndices, dragState.handleIndex)

\* C23: a frame callback that runs for a dragged handle while the facade has no
\* session, so that setHandles raises NoSession, leaves the frame-scheduled flag
\* cleared, so that the next onHandleMove requests a new frame.
C23_NoSessionFrameReturnsToIdle ==
    (/\ last.op = "frame"
     /\ last.outcome = "noSession"
     /\ latestDragInfo # <<>>
     /\ Includes(handleIndices, latestDragInfo[1].index))
        => animationFrameId = NoFrame

\* C26 as stated: toggleAnchor on an index that is not a handle removes the index
\* from the anchors and from the stored positions if it is an anchor, and otherwise
\* adds it to the anchors with the vertex's current world position; a second
\* toggleAnchor on it restores the anchor set and the set of indices that have a
\* stored position.
C26_ToggleAnchor ==
    [][(last'.op = "toggleAnchor" /\ ~Includes(handleIndices, last'.index))
          => LET index == last'.index
             IN  /\ IF Includes(anchorIndices, index)
                        THEN /\ Elems(anchorIndices') = Elems(anchorIndices) \ {index}
                             /\ DOMAIN handlePositions' = DOMAIN handlePositions \ {index}
                        ELSE /\ Elems(anchorIndices') = Elems(anchorIndices) \cup {index}
                             /\ DOMAIN handlePositions'
                                    = DOMAIN handlePositions \cup {index}
                             /\ handlePositions'[index] = getVertexWorldPosition(index)
                 /\ Elems(toggleAnchorIndices(anchorIndices', index))
                        = Elems(anchorIndices)
                 /\ DOMAIN toggleAnchorPositions(handlePositions', index)
                        = DOMAIN handlePositions
                 /\ UNCHANGED handleIndices]_vars

\* C30 as stated: a selectHandle and a toggleAnchor on one index, issued within one
\* render, leave the constraint sets as the two calls leave them when the second
\* sees the result of the first: the index joins the handles with a stored position,
\* and the toggle, finding it a handle, changes nothing.
C30_SameRenderAsSequential ==
    [][last'.op = "selectThenToggle"
          => LET index == last'.index
             IN  /\ handleIndices' = selectHandleIndices(handleIndices, index)
                 /\ handlePositions' = selectHandlePositions(handlePositions, index)
                 /\ UNCHANGED anchorIndices]_vars

\* C25 as stated: a frame callback that hands updateVertices a buffer whose length
\* differs from that of the rendered mesh fails and leaves the mesh vertex buffer
\* unchanged; the buffer is replaced only when the lengths are equal.
C25_SizeMismatchRejected ==
    [][(last'.op = "frame" /\ last'.result # <<>>)
          => LET newVertices == last'.result[1]
             IN  IF DOMAIN newVertices = Verts
                     THEN geometry' = <<newVertices>>
                     ELSE /\ UNCHANGED geometry
                          /\ last'.outcome # "solved"]_vars

\* the (index, local position) pairs a call log uploads
Uploaded(calls) ==
    UNION {{<<calls[k].indices[j], calls[k].positions[j]>> :
               j \in 1 .. Len(calls[k].indices)} :
           k \in {n \in 1 .. Len(calls) : calls[n].fn = "set_handles"}}

\* C34 as stated: the indices that have a stored position are exactly the handles
\* and the anchors.
C34_PositionsCoverConstraints ==
    DOMAIN handlePositions = Elems(handleIndices) \cup Elems(anchorIndices)

\* C35 as stated: a frame callback works on the constraint sets as they are when it
\* runs: every index it uploads is a handle or an anchor at that time, and the
\* stored positions it leaves are those of handles and anchors of that time; after
\* a clear it uploads nothing and the stored positions stay empty.
C35_FrameUsesCurrentConstraints ==
    [][last'.op = "frame"
          => /\ \A entry \in Uploaded(last'.calls) :
                    entry[1] \in Elems(handleIndices) \cup Elems(anchorIndices)
             /\ DOMAIN handlePositions'
                    \subseteq Elems(handleIndices) \cup Elems(anchorIndices)]_vars

\* C36: the index buffer a frame callback uploads holds no vertex index twice, and
\* the position buffer holds one position for each index, in the order of the index
\* buffer, also when an index is both in the handle and in the anchor list.
C36_PayloadWellFormed ==
    [][(last'.op = "frame" /\ last'.calls # NoCalls)
          => LET upload == last'.calls[1]
                 drag == latestDragInfo[1]
                 target(i) == IF i = drag.index /\ Includes(handleIndices, i)
                                  THEN drag.pos
                                  ELSE handlePositions[i]
             IN  /\ upload.fn = "set_handles"
                 /\ \A j, k \in 1 .. Len(upload.indices) :
                        j # k => upload.indices[j] # upload.indices[k]
                 /\ Len(upload.positions) = Len(upload.indices)
                 /\ \A k \in 1 .. Len(upload.indices) :
                        upload.positions[k] = worldToLocal(target(upload.indices[k]))]_vars

\* C36 witness: a frame callback has just uploaded a payload while a vertex is both
\* a handle and an anchor.
C36_Witness ==
    /\ last.op = "frame"
    /\ last.calls # NoCalls
    /\ Elems(handleIndices) \cap Elems(anchorIndices) # {}

\* C27: clear leaves the handle set, the anchor set and the stored positions empty
\* whatever they held before; its result does not depend on the state it starts
\* from, so a clear that follows a clear leaves the same empty state.
C27_ClearEmpties ==
    [][last'.op = "clear"
          => /\ handleIndices' = <<>>
             /\ anchorIndices' = <<>>
             /\ handlePositions' = EmptyMap
             /\ last.op = "clear" => UNCHANGED constraintVars]_vars

\* C27 witness: a selection has just been cleared after the model was turned.
C27_Witness ==
    /\ last.op = "clear"
    /\ handleIndices = <<>>
    /\ anchorIndices = <<>>
    /\ handlePositions = EmptyMap
    /\ xform # 0

\* C28: the payload a frame callback uploads holds exactly the anchors and the
\* handles, each with its stored position, except the dragged handle, which has the
\* position of the pending request; positions are in local space.
C28_PayloadContents ==
    [][(last'.op = "frame" /\ last'.calls # NoCalls)
          => LET drag == latestDragInfo[1]
                 target(i) == IF i = drag.index /\ Includes(handleIndices, i)
                                  THEN drag.pos
                                  ELSE handlePositions[i]
             IN  Uploaded(last'.calls)
                     = {<<i, worldToLocal(target(i))>> :
                           i \in Elems(handleIndices) \cup Elems(anchorIndices)}]_vars

\* C28 witness: a frame callback has just uploaded a payload of two constraints, one
\* of them the dragged handle, the other an anchor.
C28_Witness ==
    /\ last.op = "frame"
    /\ last.calls # NoCalls
    /\ Len(last.calls[1].indices) = 2
    /\ Includes(handleIndices, latestDragInfo[1].index)
    /\ \E a \in Elems(anchorIndices) : a # latestDragInfo[1].index

\* C29: a frame callback that solved replaces the mesh vertex buffer by the result
\* and sets the stored position of every handle and every anchor to that vertex's
\* position in the result, in world space; the index sets are unchanged.
C29_SolvedResultApplied ==
    [][(last'.op = "frame" /\ last'.outcome = "solved")
          => LET newVertices == last'.result[1]
             IN  /\ geometry' = <<newVertices>>
                 /\ \A c \in Elems(handleIndices) \cup Elems(anchorIndices) :
                        /\ c \in DOMAIN newVertices
                        /\ c \in DOMAIN handlePositions'
                        /\ handlePositions'[c] = localToWorld(newVertices[c])
                 /\ UNCHANGED <<handleIndices, anchorIndices>>]_vars

FiniteVerts == {v \in Verts : isFinite(localToWorld(geometry[1][v]))}

vertexDistanceSq(v, worldPoint) ==
    distanceToSquared(localToWorld(geometry[1][v]), worldPoint)

C38_SetsChangeOnlyInSelect ==
    [][mode # "select" => UNCHANGED <<handleIndices, anchorIndices>>]_vars

\* C38 witness: in View mode, after a drag, the model was turned and the stored
\* position of the handle was brought up to date while the handle list stayed.
C38_Witness ==
    /\ mode = "view"
    /\ last.op = "transformEnd"
    /\ latestDragInfo # <<>>
    /\ xform # 0
    /\ handleIndices = <<0>>
    /\ handlePositions[0] = getVertexWorldPosition(0)

-----------------------------------------------------------------------------
(* Claims about the Interaction State Machine *)

\* C11: in every state with mode other than Deform the Drag Session is inactive, so
\* a mode change closes an active session and re-entering Deform resumes no drag.
C11_NoDragOutsideDeform ==
    mode # "deform" => ~dragState.isDragging

\* the variables of the program (all but the history record of the last step)
progVars == <<mode, constraintVars, engineVars, meshVars, dragState, animationFrameId,
              latestDragInfo, rafQueue>>

\* C12: a pointer-up leaves the Drag Session inactive with the dragged index reset;
\* a pointer-up with no active session changes nothing, and so does a pointer-up
\* that follows a pointer-up.
C12_PointerUpClosesIdempotent ==
    [][last'.op = "pointerUp"
          => /\ dragState' = [isDragging |-> FALSE, handleIndex |-> NoIndex]
             /\ ~dragState.isDragging => UNCHANGED progVars
             /\ last.op = "pointerUp" => UNCHANGED progVars]_vars

\* C12 witness: a pointer-up has just run in Deform mode after a move was forwarded
\* for a dragged vertex, and the session is closed.
C12_Witness ==
    /\ last.op = "pointerUp"
    /\ mode = "deform"
    /\ latestDragInfo # <<>>
    /\ dragState = [isDragging |-> FALSE, handleIndex |-> NoIndex]

PointerOps == {"pointerDown", "dragStart", "selectHandle", "toggleAnchor", "pointerMove",
               "handleMove", "pointerUp"}

\* C13: in View mode no pointer-down, pointer-move or pointer-up changes the handle
\* set, the anchor set, the stored positions or the Drag Session, and none forwards
\* a move to the scheduler.
C13_ViewModeInert ==
    [][(mode = "view" /\ last'.op \in PointerOps)
          => /\ UNCHANGED <<handleIndices, anchorIndices, handlePositions, dragState>>
             /\ UNCHANGED <<latestDragInfo, animationFrameId, rafQueue, pendingMoves>>]_vars

C15_MoveForwardedFromSession ==
    [][/\ (latestDragInfo' # latestDragInfo \/ pendingMoves' # pendingMoves)
              => /\ last'.op = "handleMove"
                 /\ dragState.isDragging
                 /\ mode = "deform"
                 /\ latestDragInfo'[1].index = dragState.handleIndex
       /\ last'.op = "dragStart"
              => dragState' = [isDragging |-> TRUE, handleIndex |-> last'.index]
       /\ last'.op \notin {"dragStart", "pointerUp"} => UNCHANGED dragState]_vars

\* C15 witness: a second move has just been forwarded for the vertex of the open
\* session.
C15_Witness ==
    /\ last.op = "handleMove"
    /\ mode = "deform"
    /\ dragState.isDragging
    /\ Len(pendingMoves) >= 2
    /\ latestDragInfo[1].index = dragState.handleIndex

-----------------------------------------------------------------------------
(* Claims about the Solver Session facade, under SpecFacade *)

\* C16: an init() that resumes successfully after cleanup() has run installs no
\* engine: the service is still uninitialized and loadMesh fails with
\* NotInitialized.
C16_LateInitDiscarded ==
    [][(/\ last'.op = "initResumed"
        /\ last'.outcome = "resolved"
        /\ initCalls[last'.index]
        /\ ~service.ctor)
          => /\ ~service'.ctor
             /\ loadMesh(service', engine', TRUE, TRUE).outcome = "NotInitialized"]_vars

\* C17: loadMesh called while no init() has succeeded fails with NotInitialized,
\* asks nothing of the engine and creates no session: the controller stays absent.
C17_LoadMeshBeforeInit ==
    [][(last'.op = "loadMesh" /\ ~service.ctor)
          => /\ last'.outcome = "NotInitialized"
             /\ last'.calls = NoCalls
             /\ ~service.controller
             /\ UNCHANGED <<service, engine>>]_vars

\* C17 witness: loadMesh has just failed with NotInitialized while an init() was
\* still in flight.
C17_Witness ==
    /\ last.op = "loadMesh"
    /\ last.outcome = "NotInitialized"
    /\ initCalls # <<>>
    /\ ~service.controller

\* C18: at most one controller is live, and every controller that was replaced by a
\* later one has had delete() called on it exactly once.
C18_OneLiveController ==
    /\ Cardinality({k \in 1 .. Len(engine.deleted) : engine.deleted[k] = 0}) <= 1
    /\ \A k \in 1 .. (Len(engine.deleted) - 1) : engine.deleted[k] = 1

\* C33 as stated: whatever the order of the calls, a set_handles, solve,
\* get_vertices or delete that the facade makes on its controller is made on a
\* controller that has not been deleted before.
C33_NoCallOnDeletedController ==
    [][(\E k \in 1 .. Len(last'.calls) :
            last'.calls[k].fn \in {"set_handles", "solve", "get_vertices", "delete"})
          => ~isDeleted(service, engine)]_vars

\* C37 as stated: the engine module is instantiated at most once between disposals:
\* no init() instantiates a module while the facade holds the one instantiated
\* since the last cleanup.
C37_ModuleInstantiatedOnce ==
    [][engine'.modules > engine.modules => ~service.ctor]_vars

\* no session: the facade holds no controller, or holds one already deleted
noSession == ~service.controller \/ isDeleted(service, engine)

\* C19: setHandles, and likewise solve, called while there is no session fails with
\* NoSession and makes no call on the engine.
C19_NoSessionFails ==
    [][(last'.op \in {"setHandles", "solve"} /\ noSession)
          => /\ last'.outcome = "NoSession"
             /\ last'.calls = NoCalls]_vars

\* C20: init() called while the engine of a successful init() is installed begins no
\* load, instantiates no module and leaves the installed engine and the current
\* session as they are.
C20_InitIdempotent ==
    [][(last'.op = "init" /\ service.ctor)
          => /\ last'.outcome = "resolved"
             /\ UNCHANGED <<service, engine, initCalls>>]_vars

\* C20 witness: init() has just returned at once on an initialized service that holds
\* a live session.
C20_Witness ==
    /\ last.op = "init"
    /\ last.outcome = "resolved"
    /\ service.ctor
    /\ service.controller
    /\ ~isDeleted(service, engine)

\* C21: cleanup() called while there is no session deletes nothing and ends without
\* an error, leaving the service with no engine and no controller; a cleanup() that
\* follows a cleanup() changes nothing.
C21_CleanupSafeIdempotent ==
    [][last'.op = "cleanup"
          => /\ noSession => (last'.calls = NoCalls /\ last'.outcome = "ok")
             /\ last'.outcome = "ok"
                    => service' = [ctor |-> FALSE, controller |-> FALSE]
             /\ last.op = "cleanup" => UNCHANGED <<service, engine>>]_vars

\* C24: a loadMesh that the engine rejects (InvalidMesh) while a live session exists
\* changes nothing: that session is still the current, live session afterwards.
C24_InvalidMeshKeepsSession ==
    [][(/\ last'.op = "loadMesh"
        /\ last'.outcome = "InvalidMesh"
        /\ service.controller
        /\ ~isDeleted(service, engine))
          => /\ UNCHANGED <<service, engine>>
             /\ service'.controller
             /\ ~isDeleted(service', engine')]_vars

-----------------------------------------------------------------------------
(* Claims about the engine's start, under SpecStartup *)

\* the init() of the App has been rejected
initFailed == ~initPending /\ ~isWasmReady

\* C22: once engine initialization has failed the mode does not become Deform, the
\* error stays displayed and nothing is asked of the solver.
C22_EngineLoadFailureDisablesDeform ==
    [][initFailed
          => /\ mode # "deform" => mode' # "deform"
             /\ wasmError /\ wasmError'
             /\ last'.calls = NoCalls
             /\ UNCHANGED <<service, engine>>]_vars

====
